---- MODULE Spec2Model ----
(***************************************************************************)
(* Lookup and reference functions of pycel (src/src/pycel/lib/lookup.py):  *)
(* _match, vlookup, hlookup, lookup, index and offset.  Every function is  *)
(* a pure computation; a call is modelled as one step from pc = "call"     *)
(* (arguments chosen) to pc = "done" (result stored).                      *)
(***************************************************************************)
EXTENDS Integers, Sequences, FiniteSets, TLC

VARIABLES fn, pc, args, result

vars == <<fn, pc, args, result>>

(***************************************************************************)
(* Bounds of the model.                                                    *)
(***************************************************************************)
MaxLen == 3      \* longest lookup_array handed to _match
MaxNum == 3      \* numbers 1..MaxNum occur in lookup arrays
MaxH == 3        \* tallest table / array
MaxW == 2        \* widest table / array
MaxInc == 2      \* |row_inc|, |col_inc| and the edge distance tried by offset
MaxSize == 2     \* largest |height|, |width| handed to offset

(***************************************************************************)
(* Cell values.  Python's dynamically typed values are records of one      *)
(* shape: k is the Python type, n the numeric payload, s the characters of *)
(* a str (one string per character).                                       *)
(***************************************************************************)
Num(n) == [k |-> "num", n |-> n, s |-> <<>>]
Bool(b) == [k |-> "bool", n |-> IF b THEN 1 ELSE 0, s |-> <<>>]
Text(s) == [k |-> "text", n |-> 0, s |-> s]
Err(e) == [k |-> "err", n |-> 0, s |-> <<e>>]
None == [k |-> "none", n |-> 0, s |-> <<>>]

NA_ERROR == Err("#N/A")
REF_ERROR == Err("#REF!")
VALUE_ERROR == Err("#VALUE!")
ERROR_CODES == {NA_ERROR, REF_ERROR, VALUE_ERROR, Err("#DIV/0!"), Err("#NAME?"), Err("#NULL!")}

(***************************************************************************)
(* What a call leaves behind: a value, an array of values, an address, or  *)
(* an exception that escapes the function.                                 *)
(***************************************************************************)
Returns(v) == [kind |-> "value", v |-> v]
ReturnsArray(rows) == [kind |-> "array", rows |-> rows]
ReturnsAddress(c1, r1, c2, r2) == [kind |-> "address", start |-> [col |-> c1, row |-> r1], end |-> [col |-> c2, row |-> r2]]
Raises(exc) == [kind |-> "raise", exc |-> exc]
NoResult == [kind |-> "none"]

(***************************************************************************)
(* The typed comparator, ExcelCmp.                                         *)
(***************************************************************************)
CharCode(c) ==
    CASE c = "*" -> 42
      [] c = "?" -> 63
      [] c = "A" -> 65
      [] c = "B" -> 66
      [] c = "a" -> 97
      [] c = "b" -> 98
      [] c = "c" -> 99
      [] c = "~" -> 126
      [] OTHER -> 0

LowerChar(c) ==
    CASE c = "A" -> "a"
      [] c = "B" -> "b"
      [] OTHER -> c

Lower(s) == [i \in 1..Len(s) |-> LowerChar(s[i])]

NumericClass == 0
TextClass == 1
ErrorClass == 3
AbsentClass == 4

\* classify(value) and the normalised value that is compared
ExcelCmp(value) ==
    CASE value.k = "text" -> [cmp_type |-> TextClass, n |-> 0, s |-> Lower(value.s)]
      [] value.k = "err" -> [cmp_type |-> ErrorClass, n |-> 0, s |-> value.s]
      [] value.k = "none" -> [cmp_type |-> AbsentClass, n |-> 0, s |-> <<>>]
      [] OTHER -> [cmp_type |-> NumericClass, n |-> value.n, s |-> <<>>]

RECURSIVE StrLess(_, _)
StrLess(a, b) ==
    IF b = <<>> THEN FALSE
    ELSE IF a = <<>> THEN TRUE
    ELSE IF CharCode(Head(a)) # CharCode(Head(b)) THEN CharCode(Head(a)) < CharCode(Head(b))
    ELSE StrLess(Tail(a), Tail(b))

\* a < b on comparators; values of different classes are "not less"
CmpLess(a, b) ==
    IF a.cmp_type # b.cmp_type THEN FALSE
    ELSE IF a.cmp_type = NumericClass THEN a.n < b.n
    ELSE IF a.cmp_type = TextClass THEN StrLess(a.s, b.s)
    ELSE FALSE

\* a == b on comparators
CmpEq(a, b) == a.cmp_type = b.cmp_type /\ a.n = b.n /\ a.s = b.s

(***************************************************************************)
(* The wildcard pattern compiler, build_wildcard_re.                       *)
(***************************************************************************)
RECURSIVE HasWildcard(_)
HasWildcard(p) ==
    IF p = <<>> THEN FALSE
    ELSE IF Head(p) = "~" /\ Len(p) >= 2 THEN HasWildcard(SubSeq(p, 3, Len(p)))
    ELSE Head(p) \in {"*", "?"} \/ HasWildcard(Tail(p))

RECURSIVE WildMatch(_, _)
WildMatch(p, t) ==
    IF p = <<>> THEN t = <<>>
    ELSE IF Head(p) = "~" /\ Len(p) >= 2
        THEN t # <<>> /\ Head(t) = p[2] /\ WildMatch(SubSeq(p, 3, Len(p)), Tail(t))
    ELSE IF Head(p) = "*"
        THEN WildMatch(Tail(p), t) \/ (t # <<>> /\ WildMatch(p, Tail(t)))
    ELSE IF Head(p) = "?"
        THEN t # <<>> /\ WildMatch(Tail(p), Tail(t))
    ELSE t # <<>> /\ Head(t) = Head(p) /\ WildMatch(Tail(p), Tail(t))

(***************************************************************************)
(* _match                                                                  *)
(***************************************************************************)
\* Python's 0-based lookup_array[i]
At(seq, i) == seq[i + 1]

\* while lo < len(lookup_array) and lookup_array[lo] is None: lo += 1
RECURSIVE SkipLeadingNone(_, _)
SkipLeadingNone(lookup_array, lo) ==
    IF lo < Len(lookup_array) /\ At(lookup_array, lo) = None
        THEN SkipLeadingNone(lookup_array, lo + 1)
        ELSE lo

\* while hi > 0 and lookup_array[hi - 1] is None: hi -= 1
RECURSIVE SkipTrailingNone(_, _)
SkipTrailingNone(lookup_array, hi) ==
    IF hi > 0 /\ At(lookup_array, hi - 1) = None
        THEN SkipTrailingNone(lookup_array, hi - 1)
        ELSE hi

\* bisect_left in place of bisect_right: the boundary left of the equal run
RECURSIVE bisect_left(_, _, _, _)
bisect_left(a, x, lo, hi) ==
    IF lo < hi
        THEN LET mid == (lo + hi) \div 2 IN
             IF CmpLess(ExcelCmp(At(a, mid)), x)
                 THEN bisect_left(a, x, mid + 1, hi)
                 ELSE bisect_left(a, x, lo, mid)
        ELSE lo

RECURSIVE bisect_right(_, _, _, _)
bisect_right(a, x, lo, hi) ==
    IF lo < hi
        THEN LET mid == (lo + hi) \div 2 IN
             IF CmpLess(x, ExcelCmp(At(a, mid)))
                 THEN bisect_right(a, x, lo, mid)
                 ELSE bisect_right(a, x, mid + 1, hi)
        ELSE lo

\* the walk back over elements of another class left out
NoWalkBack(lookup_array, lookup_value, res) == res

\* while result and lookup_value.cmp_type != ExcelCmp(lookup_array[result - 1]).cmp_type
RECURSIVE WalkBack(_, _, _)
WalkBack(lookup_array, lookup_value, res) ==
    IF res # 0 /\ lookup_value.cmp_type # ExcelCmp(At(lookup_array, res - 1)).cmp_type
        THEN WalkBack(lookup_array, lookup_value, res - 1)
        ELSE res

MatchAscending(lookup_value, lookup_array) ==
    LET lo == SkipLeadingNone(lookup_array, 0)
        hi == SkipTrailingNone(lookup_array, Len(lookup_array))
        found == bisect_right(lookup_array, lookup_value, lo, hi)
        res == WalkBack(lookup_array, lookup_value, found)
    IN  IF res = 0 \/ At(lookup_array, res - 1) = None
            THEN NA_ERROR
            ELSE Num(res)

\* a compare that records the hit and forgets to return True
CompareExactNoBreak(lookup_value, idx, val, res) ==
    IF CmpEq(val, lookup_value)
        THEN [res |-> Num(idx), stop |-> FALSE]
        ELSE [res |-> res, stop |-> FALSE]

\* compare(idx, val) of match_type 0: [res: new result[0], stop: return value]
CompareExact(lookup_value, idx, val, res) ==
    IF lookup_value.cmp_type = TextClass /\ HasWildcard(lookup_value.s)
        THEN IF WildMatch(lookup_value.s, val.s)
                 THEN [res |-> Num(idx), stop |-> TRUE]
                 ELSE [res |-> res, stop |-> FALSE]
        ELSE IF CmpEq(val, lookup_value)
                 THEN [res |-> Num(idx), stop |-> TRUE]
                 ELSE [res |-> res, stop |-> FALSE]

\* a compare that never stops on equality
CompareDescendingNoEq(lookup_value, idx, val, res) ==
    IF CmpLess(val, lookup_value)
        THEN [res |-> res, stop |-> TRUE]
        ELSE [res |-> Num(idx), stop |-> FALSE]

\* compare(idx, val) of match_type -1
CompareDescending(lookup_value, idx, val, res) ==
    IF CmpLess(val, lookup_value)
        THEN [res |-> res, stop |-> TRUE]
        ELSE [res |-> Num(idx), stop |-> CmpEq(val, lookup_value)]

\* a scan that lets elements of every class reach compare
RECURSIVE MatchScanAnyClass(_, _, _, _, _)
MatchScanAnyClass(lookup_value, lookup_array, match_type, i, res) ==
    IF i > Len(lookup_array) THEN res
    ELSE LET value == lookup_array[i] IN
         IF value \in ERROR_CODES
             THEN MatchScanAnyClass(lookup_value, lookup_array, match_type, i + 1, res)
         ELSE LET val == ExcelCmp(value)
                  c == IF match_type = 0
                           THEN CompareExact(lookup_value, i, val, res)
                           ELSE CompareDescending(lookup_value, i, val, res)
              IN  IF c.stop THEN c.res
                  ELSE MatchScanAnyClass(lookup_value, lookup_array, match_type, i + 1, c.res)

\* for i, value in enumerate(lookup_array, 1): ...
RECURSIVE MatchScan(_, _, _, _, _)
MatchScan(lookup_value, lookup_array, match_type, i, res) ==
    IF i > Len(lookup_array) THEN res
    ELSE LET value == lookup_array[i] IN
         IF value \in ERROR_CODES
             THEN MatchScan(lookup_value, lookup_array, match_type, i + 1, res)
         ELSE LET val == ExcelCmp(value) IN
              IF val.cmp_type # lookup_value.cmp_type
                  THEN MatchScan(lookup_value, lookup_array, match_type, i + 1, res)
              ELSE LET c == IF match_type = 0
                                THEN CompareExact(lookup_value, i, val, res)
                                ELSE CompareDescending(lookup_value, i, val, res)
                   IN  IF c.stop THEN c.res
                       ELSE MatchScan(lookup_value, lookup_array, match_type, i + 1, c.res)

_match(lookup_value, lookup_array, match_type) ==
    IF match_type = 1
        THEN MatchAscending(ExcelCmp(lookup_value), lookup_array)
        ELSE MatchScan(ExcelCmp(lookup_value), lookup_array, match_type, 1, NA_ERROR)

(***************************************************************************)
(* Calls of _match                                                         *)
(***************************************************************************)
RECURSIVE SeqsUpTo(_, _)
SeqsUpTo(S, n) ==
    IF n = 0 THEN {<<>>}
    ELSE LET shorter == SeqsUpTo(S, n - 1) IN
         shorter \cup {Append(q, e) : q \in {r \in shorter : Len(r) = n - 1}, e \in S}

MatchElems == {Num(n) : n \in 1..MaxNum} \cup {Bool(TRUE), Text(<<"a">>), Text(<<"b">>), None, NA_ERROR}
MatchTargets == {Num(n) : n \in 0..MaxNum} \cup
                {Bool(TRUE), Text(<<"a">>), Text(<<"B">>), Text(<<"?">>), Text(<<"*">>), NA_ERROR}
MatchTypes == {-1, 0, 1}

InitMatch ==
    /\ fn = "_match"
    /\ pc = "call"
    /\ args \in [lookup_value : MatchTargets, lookup_array : SeqsUpTo(MatchElems, MaxLen), match_type : MatchTypes]
    /\ result = NoResult

Match ==
    /\ fn = "_match"
    /\ pc = "call"
    /\ result' = Returns(_match(args.lookup_value, args.lookup_array, args.match_type))
    /\ pc' = "done"
    /\ UNCHANGED <<fn, args>>

NextMatch == Match

SpecMatch == InitMatch /\ [][NextMatch]_vars

(***************************************************************************)
(* Arrays.  An argument is a tuple of row tuples (is_list), a scalar (val) *)
(* or, for an optional argument that was not passed, None (is_none).       *)
(***************************************************************************)
Array(rows) == [is_list |-> TRUE, is_none |-> FALSE, val |-> None, rows |-> rows]
Scalar(v) == [is_list |-> FALSE, is_none |-> FALSE, val |-> v, rows |-> <<>>]
NotPassed == [is_list |-> FALSE, is_none |-> TRUE, val |-> None, rows |-> <<>>]

\* list_like(x)
list_like(x) == x.is_list

\* seq[i] of Python, i 0-based or negative: [ok: no IndexError, pos: 1-based position]
PyIndex(n, i) ==
    IF 0 <= i /\ i < n THEN [ok |-> TRUE, pos |-> i + 1]
    ELSE IF i < 0 /\ -n <= i THEN [ok |-> TRUE, pos |-> n + i + 1]
    ELSE [ok |-> FALSE, pos |-> 0]

\* rows[r][c] of Python: the element, or the IndexError that escapes
GetItem2(rows, r, c) ==
    LET ri == PyIndex(Len(rows), r) IN
    IF ~ri.ok THEN Raises("IndexError")
    ELSE LET ci == PyIndex(Len(rows[ri.pos]), c) IN
         IF ~ci.ok THEN Raises("IndexError")
         ELSE Returns(rows[ri.pos][ci.pos])

\* seq[i] of Python on a flat tuple
GetItem(seq, i) ==
    LET ii == PyIndex(Len(seq), i) IN
    IF ~ii.ok THEN Raises("IndexError") ELSE Returns(seq[ii.pos])

\* tuple(i[c] for i in rows), c 0-based or negative
ColumnOf(rows, c) == [r \in 1..Len(rows) |-> rows[r][PyIndex(Len(rows[r]), c).pos]]

\* bool(range_lookup) used as match_type
BoolToMatchType(b) == IF b THEN 1 ELSE 0

(***************************************************************************)
(* vlookup, hlookup                                                        *)
(***************************************************************************)
\* the bound tested against the table's height instead of its width
ColumnBeyondHeight(table_array, col_index_num) == col_index_num > Len(table_array.rows)

\* col_index_num > len(table_array[0])
ColumnBeyond(table_array, col_index_num) == col_index_num > Len(table_array.rows[1])

\* row_index_num > len(table_array)
RowBeyond(table_array, row_index_num) == row_index_num > Len(table_array.rows)

vlookup(lookup_value, table_array, col_index_num, range_lookup) ==
    IF ~list_like(table_array) THEN Returns(NA_ERROR)
    ELSE IF col_index_num <= 0 THEN Returns(VALUE_ERROR)
    ELSE IF ColumnBeyond(table_array, col_index_num) THEN Returns(REF_ERROR)
    ELSE LET result_idx == _match(lookup_value, ColumnOf(table_array.rows, 0),
                                  BoolToMatchType(range_lookup))
         IN  IF result_idx.k = "num"
                 THEN GetItem2(table_array.rows, result_idx.n - 1, col_index_num - 1)
                 ELSE Returns(result_idx)

hlookup(lookup_value, table_array, row_index_num, range_lookup) ==
    IF ~list_like(table_array) THEN Returns(NA_ERROR)
    ELSE IF row_index_num <= 0 THEN Returns(VALUE_ERROR)
    ELSE IF RowBeyond(table_array, row_index_num) THEN Returns(REF_ERROR)
    ELSE LET result_idx == _match(lookup_value, table_array.rows[1],
                                  BoolToMatchType(range_lookup))
         IN  IF result_idx.k = "num"
                 THEN GetItem2(table_array.rows, row_index_num - 1, result_idx.n - 1)
                 ELSE Returns(result_idx)

(***************************************************************************)
(* lookup                                                                  *)
(***************************************************************************)
\* the search dimension chosen with < : a square array is searched by row
SearchByColumnStrict(height, width) == width < height

\* if width <= height: match across the largest dimension
SearchByColumn(height, width) == width <= height

lookup(lookup_value, lookup_array, result_range) ==
    IF ~list_like(lookup_array) THEN Returns(NA_ERROR)
    ELSE
    LET rows == lookup_array.rows
        height == Len(rows)
        width == Len(rows[1])
        by_col == SearchByColumn(height, width)
        match_idx == IF by_col THEN _match(lookup_value, ColumnOf(rows, 0), 1)
                               ELSE _match(lookup_value, rows[1], 1)
        own == IF by_col THEN ColumnOf(rows, -1) ELSE rows[Len(rows)]
        rr == result_range.rows
        rr_height == Len(rr)
        rr_width == Len(rr[1])
        Project(res) == IF match_idx.k = "num"
                            THEN GetItem(res, match_idx.n - 1)
                            ELSE Returns(match_idx)
    IN  IF result_range.is_none THEN Project(own)
        ELSE IF ~list_like(result_range) THEN Returns(NA_ERROR)
        ELSE IF rr_width < rr_height
            THEN IF rr_width # 1 THEN Returns(NA_ERROR)
                 ELSE Project(ColumnOf(rr, 0))
            ELSE IF rr_height # 1 THEN Returns(NA_ERROR)
                 ELSE Project(rr[1])

(***************************************************************************)
(* Calls of vlookup, hlookup and lookup                                    *)
(***************************************************************************)
KeyVals == {Num(1), Num(2), Text(<<"a">>), None}
LookupTargets == {Num(0), Num(2), Num(5), Text(<<"a">>)}

\* a cell that tells its position
Cell(base, r, c) == Num(base + 10 * r + c)

\* an h x w table whose first column (by_col) or first row holds the keys
KeyedTable(h, w, keys, by_col) ==
    Array([r \in 1..h |-> [c \in 1..w |->
        IF by_col /\ c = 1 THEN keys[r]
        ELSE IF ~by_col /\ r = 1 THEN keys[c]
        ELSE Cell(0, r, c)]])

PlainTable(base, h, w) == Array([r \in 1..h |-> [c \in 1..w |-> Cell(base, r, c)]])

ExampleTable ==
    Array(<< <<Num(1), Text(<<"a">>)>>, <<Num(5), Text(<<"b">>)>>, <<Num(9), Text(<<"c">>)>> >>)

KeySeqs(n) == {q \in SeqsUpTo(KeyVals, n) : Len(q) = n}

Shapes == (1..MaxH) \X (1..MaxW)

Tables ==
    UNION {{KeyedTable(hw[1], hw[2], keys, TRUE) : keys \in KeySeqs(hw[1])} : hw \in Shapes}
    \cup UNION {{KeyedTable(hw[1], hw[2], keys, FALSE) : keys \in KeySeqs(hw[2])} : hw \in Shapes}
    \cup {ExampleTable, Scalar(Num(2))}

ResultRanges ==
    {PlainTable(100, hw[1], hw[2]) : hw \in Shapes} \cup {NotPassed, Scalar(Num(2))}

InitLookup ==
    /\ pc = "call"
    /\ result = NoResult
    /\ \/ /\ fn = "vlookup"
          /\ args \in [lookup_value : LookupTargets, table_array : Tables,
                       col_index_num : -1..(MaxW + 1), range_lookup : BOOLEAN]
       \/ /\ fn = "hlookup"
          /\ args \in [lookup_value : LookupTargets, table_array : Tables,
                       row_index_num : -1..(MaxH + 1), range_lookup : BOOLEAN]
       \/ /\ fn = "lookup"
          /\ args \in [lookup_value : LookupTargets, lookup_array : Tables,
                       result_range : ResultRanges]

Vlookup ==
    /\ fn = "vlookup"
    /\ pc = "call"
    /\ result' = vlookup(args.lookup_value, args.table_array, args.col_index_num, args.range_lookup)
    /\ pc' = "done"
    /\ UNCHANGED <<fn, args>>

Hlookup ==
    /\ fn = "hlookup"
    /\ pc = "call"
    /\ result' = hlookup(args.lookup_value, args.table_array, args.row_index_num, args.range_lookup)
    /\ pc' = "done"
    /\ UNCHANGED <<fn, args>>

Lookup ==
    /\ fn = "lookup"
    /\ pc = "call"
    /\ result' = lookup(args.lookup_value, args.lookup_array, args.result_range)
    /\ pc' = "done"
    /\ UNCHANGED <<fn, args>>

NextLookup == Vlookup \/ Hlookup \/ Lookup

SpecLookup == InitLookup /\ [][NextLookup]_vars

(***************************************************************************)
(* index, on an array of values                                            *)
(***************************************************************************)
\* array_data read one row and one column too far (1-based indices kept)
array_data_unshifted(array, row, col) == GetItem2(array.rows, row + 1, col + 1)

\* array_data(row, col): array[row][col]
array_data(array, row, col) == GetItem2(array.rows, row, col)

\* except IndexError: return REF_ERROR
CatchIndexError(r) == IF r.kind = "raise" /\ r.exc = "IndexError" THEN Returns(REF_ERROR) ELSE r

\* (tuple(array_data(row_num - 1, col) for col in range(len(array[0]))),)
WholeRow(array, row) ==
    LET cells == [c \in 1..Len(array.rows[1]) |-> array_data(array, row, c - 1)] IN
    IF \E c \in 1..Len(cells) : cells[c].kind = "raise"
        THEN Raises("IndexError")
        ELSE ReturnsArray(<< [c \in 1..Len(cells) |-> cells[c].v] >>)

\* tuple((array_data(row, col_num - 1), ) for row in range(len(array)))
WholeColumn(array, col) ==
    LET cells == [r \in 1..Len(array.rows) |-> array_data(array, r - 1, col)] IN
    IF \E r \in 1..Len(cells) : cells[r].kind = "raise"
        THEN Raises("IndexError")
        ELSE ReturnsArray([r \in 1..Len(cells) |-> << cells[r].v >>])

\* row_num and col_num are numbers; 0 stands for an index that is 0 or not given
index(array, row_num, col_num) ==
    IF ~list_like(array)
        THEN IF array.val \in ERROR_CODES THEN Returns(array.val) ELSE Returns(VALUE_ERROR)
    ELSE IF row_num # 0 /\ col_num # 0
        THEN IF row_num < 0 \/ col_num < 0
                 THEN Returns(VALUE_ERROR)
                 ELSE CatchIndexError(array_data(array, row_num - 1, col_num - 1))
    ELSE IF row_num # 0
        THEN IF row_num < 0 THEN Returns(VALUE_ERROR)
             ELSE IF Len(array.rows[1]) = 1
                 THEN CatchIndexError(array_data(array, row_num - 1, 0))
             ELSE IF Len(array.rows) = 1
                 THEN CatchIndexError(array_data(array, 0, row_num - 1))
             ELSE CatchIndexError(WholeRow(array, row_num - 1))
    ELSE IF col_num # 0
        THEN IF col_num < 0 THEN Returns(VALUE_ERROR)
             ELSE IF Len(array.rows) = 1
                 THEN CatchIndexError(array_data(array, 0, col_num - 1))
             ELSE IF Len(array.rows[1]) = 1
                 THEN CatchIndexError(array_data(array, col_num - 1, 0))
             ELSE CatchIndexError(WholeColumn(array, col_num - 1))
    ELSE ReturnsArray(array.rows)

IndexArrays ==
    {PlainTable(0, hw[1], hw[2]) : hw \in Shapes} \cup {Scalar(Num(2)), Scalar(NA_ERROR)}

InitIndex ==
    /\ fn = "index"
    /\ pc = "call"
    /\ args \in [array : IndexArrays, row_num : -MaxH..(MaxH + 2), col_num : -MaxW..(MaxW + 2)]
    /\ result = NoResult

Index ==
    /\ fn = "index"
    /\ pc = "call"
    /\ result' = index(args.array, args.row_num, args.col_num)
    /\ pc' = "done"
    /\ UNCHANGED <<fn, args>>

NextIndex == Index

SpecIndex == InitIndex /\ [][NextIndex]_vars

(***************************************************************************)
(* offset                                                                  *)
(***************************************************************************)
MAX_ROW == 1048576
MAX_COL == 16384

\* if new_row <= 0 or end_row > MAX_ROW or new_col <= 0 or end_col > MAX_COL
OffsetOutOfGrid(new_row, end_row, new_col, end_col) ==
    new_row <= 0 \/ end_row > MAX_ROW \/ new_col <= 0 \/ end_col > MAX_COL

\* reference: the base address, with the size of the range it names;
\* height, width: [given, n], "not given" being the default None
offset(reference, row_inc, col_inc, height, width) ==
    LET h == IF height.given THEN height.n ELSE reference.height
        w == IF width.given THEN width.n ELSE reference.width
        new_row == reference.row + row_inc
        end_row == new_row + h - 1
        new_col == reference.col_idx + col_inc
        end_col == new_col + w - 1
    IN  IF OffsetOutOfGrid(new_row, end_row, new_col, end_col)
            THEN Returns(REF_ERROR)
        ELSE IF h = 1 /\ w = 1
            THEN ReturnsAddress(new_col, new_row, new_col, new_row)
            ELSE ReturnsAddress(new_col, new_row, end_col, end_row)

\* coordinates within MaxInc of an edge of the grid
NearEdge(max) == (1..MaxInc) \cup ((max - MaxInc + 1)..max)

References ==
    {ref \in [row : NearEdge(MAX_ROW), col_idx : NearEdge(MAX_COL),
              height : 1..MaxSize, width : 1..MaxSize] :
        ref.row + ref.height - 1 <= MAX_ROW /\ ref.col_idx + ref.width - 1 <= MAX_COL}

Sizes == {[given |-> FALSE, n |-> 0]} \cup {[given |-> TRUE, n |-> n] : n \in -MaxSize..MaxSize}

InitOffset ==
    /\ fn = "offset"
    /\ pc = "call"
    /\ args \in [reference : References, row_inc : -MaxInc..MaxInc, col_inc : -MaxInc..MaxInc,
                 height : Sizes, width : Sizes]
    /\ result = NoResult

Offset ==
    /\ fn = "offset"
    /\ pc = "call"
    /\ result' = offset(args.reference, args.row_inc, args.col_inc, args.height, args.width)
    /\ pc' = "done"
    /\ UNCHANGED <<fn, args>>

NextOffset == Offset

SpecOffset == InitOffset /\ [][NextOffset]_vars

(***************************************************************************)
(* Properties of _match                                                    *)
(***************************************************************************)
MatchDone == fn = "_match" /\ pc = "done"
Target == ExcelCmp(args.lookup_value)
Elem(i) == ExcelCmp(args.lookup_array[i])
Positions == 1..Len(args.lookup_array)

\* element i takes part in a scan for the target: same class, no error sentinel
Participates(i) == args.lookup_array[i] \notin ERROR_CODES /\ Elem(i).cmp_type = Target.cmp_type
\* element i is comparable with the target
Comparable(i) == Elem(i).cmp_type = Target.cmp_type
LeqTarget(i) == CmpLess(Elem(i), Target) \/ CmpEq(Elem(i), Target)
TargetInArray == \E i \in Positions : CmpEq(Elem(i), Target)
TargetIsPattern == args.lookup_value.k = "text" /\ HasWildcard(Target.s)
\* sorted ascending, all elements in one comparison class
SortedAscending ==
    \A i, j \in Positions : i < j =>
        /\ Elem(i).cmp_type = Elem(j).cmp_type
        /\ ~CmpLess(Elem(j), Elem(i))
MaxOf(S) == CHOOSE m \in S : \A x \in S : x <= m
MinOf(S) == CHOOSE m \in S : \A x \in S : m <= x

\* C1: on a sorted-ascending array of one class that holds the target, match_type 1
\* returns the position of the last occurrence of the largest element <= target.
C1_AscendingLastOccurrence ==
    (MatchDone /\ args.match_type = 1 /\ SortedAscending /\ TargetInArray) =>
        \E i \in Positions :
            /\ result = Returns(Num(i))
            /\ LeqTarget(i)
            /\ \A j \in Positions : LeqTarget(j) => ~CmpLess(Elem(i), Elem(j))
            /\ \A j \in Positions : j > i => ~CmpEq(Elem(j), Elem(i))

C1_Witness ==
    /\ MatchDone /\ args.match_type = 1 /\ SortedAscending /\ TargetInArray
    /\ \E i, j, h \in Positions :
          /\ i < j /\ j < h
          /\ CmpEq(Elem(i), Target) /\ CmpEq(Elem(j), Target) /\ CmpLess(Target, Elem(h))
          /\ result = Returns(Num(j))

\* the participating elements the descending scan reaches that are >= target:
\* everything before them that participates is strictly greater than the target
ScannedNotLess ==
    {i \in Positions :
        /\ Participates(i)
        /\ ~CmpLess(Elem(i), Target)
        /\ \A j \in Positions : (j < i /\ Participates(j)) => CmpLess(Target, Elem(j))}
FirstLess == {i \in Positions : Participates(i) /\ CmpLess(Elem(i), Target)}
ParticipantsBefore(j) == {i \in Positions : i < j /\ Participates(i)}

\* C2 as stated: match_type -1 returns the index of the participating element
\* immediately before the first participating element that is < target, and
\* not-found if no participating element >= target precedes it.
C2_DescendingBeforeFirstLess ==
    (MatchDone /\ args.match_type = -1 /\ FirstLess # {}) =>
        LET j == MinOf(FirstLess) IN
        IF ParticipantsBefore(j) = {}
            THEN result = Returns(NA_ERROR)
            ELSE result = Returns(Num(MaxOf(ParticipantsBefore(j))))

\* C2 amended: the descending scan stops at the first participating element that
\* is < target or = target; the result is the last participating element >= target
\* it reached (the equal element itself), not-found if it reached none.
C2_DescendingScan ==
    (MatchDone /\ args.match_type = -1) =>
        IF ScannedNotLess = {}
            THEN result = Returns(NA_ERROR)
            ELSE result = Returns(Num(MaxOf(ScannedNotLess)))

C2_Witness ==
    /\ MatchDone /\ args.match_type = -1
    /\ \E i, j, h \in Positions :
          /\ i < j /\ j < h
          /\ CmpEq(Elem(i), Target) /\ CmpEq(Elem(j), Target)
          /\ Participates(h) /\ CmpLess(Elem(h), Target)
          /\ result = Returns(Num(i))

\* C3: match_type 0 with a target without wildcard markers returns the index of
\* the first element of the target's class that equals it, skipping error
\* sentinels, and not-found if there is none.
ExactHits == {i \in Positions : Participates(i) /\ CmpEq(Elem(i), Target)}
C3_ExactFirstHit ==
    (MatchDone /\ args.match_type = 0 /\ ~TargetIsPattern) =>
        IF ExactHits = {}
            THEN result = Returns(NA_ERROR)
            ELSE result = Returns(Num(MinOf(ExactHits)))

C3_Witness ==
    /\ MatchDone /\ args.match_type = 0 /\ ~TargetIsPattern
    /\ Cardinality(ExactHits) >= 2
    /\ MinOf(ExactHits) > 1
    /\ args.lookup_array[MinOf(ExactHits)] # args.lookup_value
    /\ result = Returns(Num(MinOf(ExactHits)))

\* target is not in the array and below every element comparable with it
BelowAll ==
    /\ ~TargetInArray
    /\ \A i \in Positions : Comparable(i) => CmpLess(Target, Elem(i))

\* C4 as stated: a target not in the array and below every comparable element
\* is not found, in every match mode (taken here for the targets that are
\* matched literally, which is the case the statement is about).
C4_BelowAllNotFound ==
    (MatchDone /\ BelowAll /\ ~TargetIsPattern) => result = Returns(NA_ERROR)

\* no element of the target's class is followed by an element outside it
ComparableLast ==
    \A i, j \in Positions : (i < j /\ Comparable(i)) => Comparable(j)

\* C4 amended: such a target is not found in exact mode when it has no wildcard
\* markers, and in ascending mode when no comparable element is followed by an
\* element that is not; in descending mode the result is the last participating
\* element (not-found only if there is none).
C4_BelowAllByMode ==
    (MatchDone /\ BelowAll) =>
        /\ (args.match_type = 0 /\ ~TargetIsPattern) => result = Returns(NA_ERROR)
        /\ (args.match_type = 1 /\ ComparableLast) => result = Returns(NA_ERROR)
        /\ args.match_type = -1 =>
              LET P == {i \in Positions : Participates(i)} IN
              IF P = {} THEN result = Returns(NA_ERROR)
                        ELSE result = Returns(Num(MaxOf(P)))

C4_Witness ==
    /\ MatchDone /\ BelowAll /\ args.match_type = 1 /\ ComparableLast
    /\ Len(args.lookup_array) = MaxLen
    /\ ~Comparable(1) /\ Comparable(2)
    /\ result = Returns(NA_ERROR)

\* the result is not-found or the position of an element of the target's class
\* that is neither an absence marker nor an error sentinel
ResultWellFormed ==
    \/ result = Returns(NA_ERROR)
    \/ \E i \in Positions :
          /\ result = Returns(Num(i))
          /\ args.lookup_array[i] # None
          /\ args.lookup_array[i] \notin ERROR_CODES
          /\ Elem(i).cmp_type = Target.cmp_type

\* C10 as stated: for every target, array and mode the result is well formed.
C10_ResultWellFormed == MatchDone => ResultWellFormed

\* C10 amended: for every target that is not an error sentinel, every array and
\* every mode the result is well formed.
C10_ResultWellFormedNoErrorTarget ==
    (MatchDone /\ args.lookup_value \notin ERROR_CODES) => ResultWellFormed

C10_Witness ==
    /\ MatchDone /\ args.lookup_value.k = "num" /\ args.match_type = 1
    /\ \E i, j \in Positions :
          /\ i < j
          /\ result = Returns(Num(i))
          /\ args.lookup_array[j] \in ERROR_CODES \cup {None}
          /\ \A h \in Positions : h > i => ~Comparable(h)

(***************************************************************************)
(* Properties of vlookup, hlookup and lookup                               *)
(***************************************************************************)
VlookupDone == fn = "vlookup" /\ pc = "done"
LookupDone == fn = "lookup" /\ pc = "done"
FirstColumn(rows) == [r \in 1..Len(rows) |-> rows[r][1]]
LastColumn(rows) == [r \in 1..Len(rows) |-> rows[r][Len(rows[r])]]
FirstRow(rows) == rows[1]
LastRow(rows) == rows[Len(rows)]
Width(rows) == Len(rows[1])
Height(rows) == Len(rows)

\* C5: on a table that is an array, vlookup returns the invalid-value error for
\* col_index_num < 1 and the invalid-reference error for col_index_num beyond the
\* table's width, whatever the target and range_lookup; only for an index within
\* the width is the result the matched row's cell or value-unavailable.
C5_VlookupValidatesFirst ==
    (VlookupDone /\ args.table_array.is_list) =>
        LET rows == args.table_array.rows
            k == args.col_index_num
            mode == IF args.range_lookup THEN 1 ELSE 0
            m == _match(args.lookup_value, FirstColumn(rows), mode)
        IN  /\ k < 1 => result = Returns(VALUE_ERROR)
            /\ k > Width(rows) => result = Returns(REF_ERROR)
            /\ (1 <= k /\ k <= Width(rows)) =>
                  \/ m = NA_ERROR /\ result = Returns(NA_ERROR)
                  \/ /\ m.k = "num" /\ m.n \in 1..Height(rows)
                     /\ result = Returns(rows[m.n][k])

\* the target is found in column 1 and col_index_num is beyond a table that is
\* taller than it is wide
C5_Witness ==
    /\ VlookupDone /\ args.table_array.is_list
    /\ ~args.range_lookup
    /\ \E r \in 1..Height(args.table_array.rows) : args.table_array.rows[r][1] = args.lookup_value
    /\ args.col_index_num > Width(args.table_array.rows)
    /\ args.col_index_num <= Height(args.table_array.rows)
    /\ result = Returns(REF_ERROR)

\* C6: lookup, vlookup and hlookup never let a fault escape; a matched position
\* beyond the vector that is projected from yields the invalid-reference error.
C6_NoFaultOnOverflow ==
    (pc = "done" /\ fn \in {"lookup", "vlookup", "hlookup"}) => result.kind # "raise"

IndexDone == fn = "index" /\ pc = "done"
OffsetDone == fn = "offset" /\ pc = "done"

\* C8: on a 2-D array of values with both indices given, index returns the
\* element at (row_num-1, col_num-1) when both are within the array, the
\* invalid-value error when either is negative and the invalid-reference error
\* when either is beyond the array; it returns no other element and never raises.
C8_IndexBothGiven ==
    (IndexDone /\ args.array.is_list /\ args.row_num # 0 /\ args.col_num # 0) =>
        LET rows == args.array.rows
            r == args.row_num
            c == args.col_num
        IN  /\ result.kind = "value"
            /\ (r < 0 \/ c < 0) => result = Returns(VALUE_ERROR)
            /\ (r \in 1..Len(rows) /\ c \in 1..Len(rows[1])) => result = Returns(rows[r][c])
            /\ (r > 0 /\ c > 0 /\ (r > Len(rows) \/ c > Len(rows[1]))) => result = Returns(REF_ERROR)

C8_Witness ==
    /\ IndexDone /\ args.array.is_list
    /\ Len(args.array.rows) = MaxH /\ Len(args.array.rows[1]) = MaxW
    /\ args.row_num = MaxH /\ args.col_num = 1
    /\ result = Returns(args.array.rows[MaxH][1])

InGrid(p) == 1 <= p.row /\ p.row <= MAX_ROW /\ 1 <= p.col /\ p.col <= MAX_COL

\* C7: every address or range that offset returns has both corners inside
\* 1..MAX_COL x 1..MAX_ROW; whenever a corner would fall outside, the result is
\* the invalid-reference error.
C7_OffsetStaysInGrid ==
    OffsetDone =>
        \/ result = Returns(REF_ERROR)
        \/ result.kind = "address" /\ InGrid(result.start) /\ InGrid(result.end)

====
